---- MODULE Spec2Model ----
(***************************************************************************)
(* Model of src/app.py: the AK & AA shared expense tracker.                *)
(*                                                                         *)
(* Amounts are binary64 numbers, as pandas and the widgets hold them, and   *)
(* the sums, differences and halvings are those of binary64: each result   *)
(* is rounded to 53 significant bits, ties to even.  A number is written   *)
(* <<sign, exp, hi, lo>> and stands for sign * (hi * Limb + lo) * 2^exp.   *)
(* 0.0 and -0.0, which compare equal in the code, are the one value Zero;  *)
(* infinities, NaN and subnormal numbers are not represented.              *)
(*                                                                         *)
(* Three specifications share the variables:                               *)
(*   EngineSpec  one script run's display pipeline over a loaded frame:    *)
(*               calculate_balance_and_summary, the balance card and the   *)
(*               transaction-by-transaction log loop;                      *)
(*   Spec        the sessions, the login gate, the sheet and its cache;    *)
(*   LedgerSpec  Spec without the edits of an Amount cell of the grid.     *)
(***************************************************************************)
EXTENDS Integers, Sequences, FiniteSets, TLC

VARIABLES
    df,               \* EngineSpec: transactions_df of the run
    pc,               \* EngineSpec: position of the run in the script
    balance,          \* EngineSpec: balance returned at line 293
    summary_data,     \* EngineSpec: summary returned at line 293
    card,             \* EngineSpec: the balance card of lines 297-302
    idx,              \* EngineSpec: rows already handled by the log loop
    running_balance,  \* EngineSpec: running_balance of the log loop
    log,              \* EngineSpec: entries the log loop has written
    secrets,          \* Spec: [credentials.users] of secrets.toml
    sheet,            \* Spec: rows of worksheet "Sheet1"
    cache,            \* Spec: the st.cache_data entry of load_data
    auth,             \* Spec: per session, authentication_status and username
    spc,              \* Spec: per session, position of its script run
    event,            \* Spec: per session, the widget event of its script run
                      \*       (before a rerun: the edit its grid holds)
    current_user,     \* Spec: per session, current_user of its script run
    snap,             \* Spec: per session, transactions_df of its script run
                      \*       (while it loads: the rows _conn.read was sent;
                      \*       before a rerun: the data of its grid)
    page              \* Spec: per session, what its last run rendered

engineVars == <<df, pc, balance, summary_data, card, idx, running_balance, log>>

appVars == <<secrets, sheet, cache, auth, spc, event, current_user, snap, page>>

vars == <<df, pc, balance, summary_data, card, idx, running_balance, log,
          secrets, sheet, cache, auth, spc, event, current_user, snap, page>>

(***************************************************************************)
(* Bounds                                                                  *)
(***************************************************************************)
\* Longest frame EngineSpec draws.
MaxRows == 2

\* Most rows the sheet holds in Spec (Add Transaction is not offered beyond).
MaxSheet == 2

(***************************************************************************)
(* Domains                                                                 *)
(***************************************************************************)
\* The two parties (selectbox "Paid by", credentials.users).
Parties == {"AK", "AA"}

\* A payer value that is neither party (free text typed in the grid).
OtherPayer == "XX"

\* The five recognised types of the "Type" selectbox.
Types == {"Shared Expense", "For AK only", "For AA only",
          "Repayment from AK to AA", "Repayment from AA to AK"}

\* A type value that is none of the five.
OtherType == "Misc"

(***************************************************************************)
(* binary64 arithmetic                                                     *)
(***************************************************************************)
Limb == 2^30

\* A binary64 number is <<sign, exp, hi, lo>> and stands for
\* sign * (hi * Limb + lo) * 2^exp, the 53-bit significand hi * Limb + lo
\* having its first bit set: 2^22 <= hi < 2^23 and 0 <= lo < Limb.
Zero == <<0, 0, 0, 0>>

\* hi * Limb + lo with the carry of lo taken into hi.
Carry(hi, lo) == <<hi + (lo \div Limb), lo % Limb>>

\* -x
Neg(x) == <<-x[1], x[2], x[3], x[4]>>

\* |x| < |y| for two numbers that are not zero.
MagLess(x, y) ==
    \/ x[2] < y[2]
    \/ x[2] = y[2] /\ (x[3] < y[3] \/ (x[3] = y[3] /\ x[4] < y[4]))

\* x < y
Less(x, y) ==
    IF x[1] # y[1] THEN x[1] < y[1]
    ELSE IF x[1] = 1 THEN MagLess(x, y)
    ELSE IF x[1] = -1 THEN MagLess(y, x)
    ELSE FALSE

\* The magnitude hi * Limb + lo shifted right by d bits; the last bit is
\* set when a bit that is set was shifted out (the sticky bit).
ShiftRight(hi, lo, d) ==
    IF d = 0 THEN <<hi, lo>>
    ELSE IF d >= 60 THEN <<0, IF hi # 0 \/ lo # 0 THEN 1 ELSE 0>>
    ELSE IF d >= 30
    THEN LET q == 2^(d - 30)
             kept == hi \div q
         IN  <<0, IF (hi % q # 0 \/ lo # 0) /\ kept % 2 = 0
                  THEN kept + 1 ELSE kept>>
    ELSE LET q == 2^d
             kept == (hi % q) * (Limb \div q) + lo \div q
         IN  <<hi \div q, IF lo % q # 0 /\ kept % 2 = 0
                          THEN kept + 1 ELSE kept>>

\* The magnitude (hi * Limb + lo) * 2^exp, not zero, shifted left until it
\* has 56 bits.
RECURSIVE Normalize(_, _, _)
Normalize(hi, lo, exp) ==
    IF hi >= 2^25 THEN <<hi, lo, exp>>
    ELSE Normalize(2 * hi + lo \div 2^29, (lo % 2^29) * 2, exp - 1)

\* Round-to-nearest, ties-to-even, of sign * (hi * Limb + lo) * 2^exp, a
\* magnitude of 56 bits whose last bit is sticky, to the 53 bits of binary64.
Round(sign, hi, lo, exp) ==
    LET rest == lo % 8
        down == (hi % 8) * 2^27 + lo \div 8
        up == rest > 4 \/ (rest = 4 /\ down % 2 = 1)
        m == Carry(hi \div 8, IF up THEN down + 1 ELSE down)
    IN  IF m[1] = 2^23 THEN <<sign, exp + 4, 2^22, 0>>
        ELSE <<sign, exp + 3, m[1], m[2]>>

\* x + y
Plus(x, y) ==
    IF x = Zero THEN y
    ELSE IF y = Zero THEN x
    ELSE LET big == IF MagLess(x, y) THEN y ELSE x
             small == IF MagLess(x, y) THEN x ELSE y
             exp == big[2] - 3
             b == <<big[3] * 8 + big[4] \div 2^27, (big[4] % 2^27) * 8>>
             s == ShiftRight(small[3] * 8 + small[4] \div 2^27,
                             (small[4] % 2^27) * 8, big[2] - small[2])
         IN  IF big[1] = small[1]
             THEN LET sum == Carry(b[1] + s[1], b[2] + s[2])
                      half == ShiftRight(sum[1], sum[2], 1)
                  IN  IF sum[1] >= 2^26
                      THEN Round(big[1], half[1], half[2], exp + 1)
                      ELSE Round(big[1], sum[1], sum[2], exp)
             ELSE LET diff == Carry(b[1] - s[1], b[2] - s[2])
                      n == Normalize(diff[1], diff[2], exp)
                  IN  IF diff = <<0, 0>> THEN Zero
                      ELSE Round(big[1], n[1], n[2], n[3])

\* x - y
Minus(x, y) == Plus(x, Neg(y))

\* x / 2.0, exact in binary64.
Half(x) == IF x = Zero THEN Zero ELSE <<x[1], x[2] - 1, x[3], x[4]>>

\* The quotient (hi * Limb + lo + rem / 25) * 2^exp, not zero, carried on bit
\* by bit until it has 56 bits; rem is the remainder left.
RECURSIVE Divide25(_, _, _, _)
Divide25(hi, lo, rem, exp) ==
    IF hi >= 2^25 THEN <<hi, lo, rem, exp>>
    ELSE Divide25(2 * hi + lo \div 2^29,
                  (lo % 2^29) * 2 + (2 * rem) \div 25,
                  (2 * rem) % 25, exp - 1)

\* The binary64 a decimal amount is read as: a counts half-paise, so a = 2
\* is the literal 0.01 and Float64(a) the binary64 nearest to a / 200.
Float64(a) ==
    LET mag == IF a < 0 THEN -a ELSE a
        q == Divide25(0, mag \div 25, mag % 25, -3)
        last == IF q[3] # 0 /\ q[2] % 2 = 0 THEN q[2] + 1 ELSE q[2]
    IN  IF a = 0 THEN Zero
        ELSE Round(IF a < 0 THEN -1 ELSE 1, q[1], last, q[4])

\* Amounts a loaded frame can hold: -0.01, 0, 0.01 and 0.04.  The grid
\* editor and the sheet accept any number, to_numeric(...).fillna(0.0)
\* yields 0 for blanks.
Amounts == {Float64(a) : a \in {-2, 0, 2, 8}}

\* 0.01, the threshold of the balance card.
Eps == Float64(2)

EngineRows ==
    [Transaction : {"t"}, Amount : Amounts, Type : Types \cup {OtherType},
     PaidBy : Parties \cup {OtherPayer}, Date : {1}, EnteredBy : {"AK"}]

SeqsUpTo(S, n) == UNION {[1..k -> S] : k \in 0..n}

(***************************************************************************)
(* calculate_balance_and_summary                                           *)
(***************************************************************************)
\* df[mask]['Amount'].sum(): the rows are added one by one from the first.
RECURSIVE SumAmount(_)
SumAmount(rows) ==
    IF rows = <<>> THEN Zero
    ELSE Plus(SumAmount(SubSeq(rows, 1, Len(rows) - 1)), rows[Len(rows)].Amount)

ZeroSummary ==
    [total_paid_by_AK |-> Zero, total_paid_by_AA |-> Zero,
     shared_expenses |-> Zero, shared_paid_by_ak |-> Zero,
     shared_paid_by_aa |-> Zero, ak_only_paid_by_aa |-> Zero,
     aa_only_paid_by_ak |-> Zero, repayment_ak_to_aa |-> Zero,
     repayment_aa_to_ak |-> Zero]

\* The summary dictionary of lines 219-229.
Summary(d) ==
    [total_paid_by_AK |-> SumAmount(SelectSeq(d, LAMBDA r : r.PaidBy = "AK")),
     total_paid_by_AA |-> SumAmount(SelectSeq(d, LAMBDA r : r.PaidBy = "AA")),
     shared_expenses |-> SumAmount(SelectSeq(d, LAMBDA r : r.Type = "Shared Expense")),
     shared_paid_by_ak |->
        SumAmount(SelectSeq(d, LAMBDA r : r.Type = "Shared Expense" /\ r.PaidBy = "AK")),
     shared_paid_by_aa |->
        SumAmount(SelectSeq(d, LAMBDA r : r.Type = "Shared Expense" /\ r.PaidBy = "AA")),
     ak_only_paid_by_aa |->
        SumAmount(SelectSeq(d, LAMBDA r : r.Type = "For AK only" /\ r.PaidBy = "AA")),
     aa_only_paid_by_ak |->
        SumAmount(SelectSeq(d, LAMBDA r : r.Type = "For AA only" /\ r.PaidBy = "AK")),
     repayment_ak_to_aa |->
        SumAmount(SelectSeq(d, LAMBDA r : r.Type = "Repayment from AK to AA")),
     repayment_aa_to_ak |->
        SumAmount(SelectSeq(d, LAMBDA r : r.Type = "Repayment from AA to AK"))]

\* Lines 231-236 with the two repayment signs exchanged.
Balance_RepaymentFlipped(s) ==
    LET ak_share == IF Less(Zero, s.shared_expenses)
                    THEN Half(s.shared_expenses) ELSE Zero
        b1 == Minus(s.shared_paid_by_ak, ak_share)
        b2 == Plus(b1, s.aa_only_paid_by_ak)
        b3 == Minus(b2, s.ak_only_paid_by_aa)
        b4 == Minus(b3, s.repayment_ak_to_aa)
    IN  Plus(b4, s.repayment_aa_to_ak)

\* Lines 231-236: the balance from the summary.
Balance(s) ==
    LET ak_share == IF Less(Zero, s.shared_expenses)
                    THEN Half(s.shared_expenses) ELSE Zero
        b1 == Minus(s.shared_paid_by_ak, ak_share)
        b2 == Plus(b1, s.aa_only_paid_by_ak)
        b3 == Minus(b2, s.ak_only_paid_by_aa)
        b4 == Plus(b3, s.repayment_ak_to_aa)
    IN  Minus(b4, s.repayment_aa_to_ak)

\* The early return of line 212 answering a sentinel instead of zeros.
calculate_balance_and_summary_EmptySentinel(d) ==
    IF d = <<>>
    THEN [balance |-> Neg(Eps),
          summary |-> [ZeroSummary EXCEPT !.shared_expenses = Neg(Eps)]]
    ELSE [balance |-> Balance(Summary(d)), summary |-> Summary(d)]

calculate_balance_and_summary(d) ==
    IF d = <<>>
    THEN [balance |-> Zero, summary |-> ZeroSummary]
    ELSE [balance |-> Balance(Summary(d)), summary |-> Summary(d)]

(***************************************************************************)
(* The balance card, lines 297-302                                         *)
(***************************************************************************)
\* No card rendered yet.
NoCard == [class |-> "none", title |-> "", amount |-> Zero]

\* Lines 297-302 comparing against 0 instead of 0.01.
BalanceCard_NoEpsilon(b) ==
    IF Less(Zero, b)
    THEN [class |-> "positive", title |-> "Final Balance: AA owes AK", amount |-> b]
    ELSE IF Less(b, Zero)
    THEN [class |-> "negative", title |-> "Final Balance: AK owes AA",
          amount |-> Neg(b)]
    ELSE [class |-> "neutral", title |-> "You are all settled up!", amount |-> Zero]

BalanceCard(b) ==
    IF Less(Eps, b)
    THEN [class |-> "positive", title |-> "Final Balance: AA owes AK", amount |-> b]
    ELSE IF Less(b, Neg(Eps))
    THEN [class |-> "negative", title |-> "Final Balance: AK owes AA",
          amount |-> Neg(b)]
    ELSE [class |-> "neutral", title |-> "You are all settled up!", amount |-> Zero]

(***************************************************************************)
(* The transaction-by-transaction log loop, lines 366-401                  *)
(***************************************************************************)
\* Lines 374-395: the delta of one row.
balance_change(row) ==
    IF row.Type = "Shared Expense"
    THEN IF row.PaidBy = "AK" THEN Half(row.Amount) ELSE Neg(Half(row.Amount))
    ELSE IF row.Type = "For AA only" /\ row.PaidBy = "AK" THEN row.Amount
    ELSE IF row.Type = "For AK only" /\ row.PaidBy = "AA" THEN Neg(row.Amount)
    ELSE IF row.Type = "Repayment from AA to AK" THEN Neg(row.Amount)
    ELSE IF row.Type = "Repayment from AK to AA" THEN row.Amount
    ELSE Zero

(***************************************************************************)
(* The access gate, lines 98-153 and 256-274                               *)
(***************************************************************************)
Sessions == {1, 2}

\* [credentials.users] as the comment of lines 100-103 asks for it.
RequiredSecrets == [AK |-> "pwAK", AA |-> "pwAA"]

\* What [credentials.users] of secrets.toml may hold: the two users asked
\* for, or AK and a user ZZ of another name.  Nothing in the script counts
\* or names the users it finds, so a user beside AK and AA is admitted as
\* one in the place of AA is.
SecretsFiles == {RequiredSecrets, [AK |-> "pwAK", ZZ |-> "pwZZ"]}

\* Line 113: the users of the secrets file, whoever they are.
user_map == secrets

\* stauth.Hasher(passwords).generate(): a one-way image of the password.
Hasher(password) == <<"hashed", password>>

\* Lines 140-143.
credentials ==
    [uname \in DOMAIN user_map |->
        [name |-> uname, password |-> Hasher(user_map[uname])]]

\* What the visitor of a session types into the login form: session 1 is
\* AK's browser and AK may mistype the name; session 2 is the browser of AA
\* and of ZZ, each a user only if the secrets file says so.
LoginNames(s) == IF s = 1 THEN {"AK", "XX"} ELSE {"AA", "ZZ"}

LoginPasswords == {"pwAK", "pwAA", "pwZZ"}

\* authentication_status None of a session that has not logged in.
NoAuth == [status |-> "None", username |-> ""]

\* authenticator.login on a submitted form: the status and the username.
login(uname, password) ==
    IF uname \in DOMAIN credentials /\ credentials[uname].password = Hasher(password)
    THEN [status |-> "True", username |-> uname]
    ELSE [status |-> "False", username |-> ""]

\* Lines 259-264: the script goes on only past both st.stop() calls.
LoginGate(status) == status = "True"

(***************************************************************************)
(* The record store: load_data, save_data, df_equivalent                   *)
(***************************************************************************)
\* Inputs of the Add Transaction form (number_input has min_value 0.01):
\* a description or none, and a date, the later one in session 1 so that
\* rows reach the sheet out of date order.
Forms(s) ==
    [transaction : {"t", ""}, amount : {Float64(2)},
     transaction_date : {IF s = 1 THEN 2 ELSE 1},
     paid_by : {"AK"}, trans_type : {"Shared Expense"}]

NoForm ==
    [transaction |-> "", amount |-> Zero, transaction_date |-> 1,
     paid_by |-> "AK", trans_type |-> "Shared Expense"]

\* Amounts typed into the Amount column of the grid, which has no minimum.
GridAmounts == {Float64(-2)}

NoEvent == [kind |-> "none", form |-> NoForm, i |-> 0, v |-> Zero]

NoCache == [present |-> FALSE, df |-> <<>>]

NoPage == [view |-> "none", user |-> "", save_error |-> FALSE]

\* Insertion of a row behind the rows whose date is not later (stable).
RECURSIVE InsertByDate(_, _)
InsertByDate(row, sorted) ==
    IF sorted = <<>> THEN <<row>>
    ELSE IF row.Date < Head(sorted).Date THEN <<row>> \o sorted
    ELSE <<Head(sorted)>> \o InsertByDate(row, Tail(sorted))

RECURSIVE SortByDate(_)
SortByDate(rows) ==
    IF rows = <<>> THEN <<>>
    ELSE InsertByDate(rows[Len(rows)], SortByDate(SubSeq(rows, 1, Len(rows) - 1)))

\* Lines 166-190 on the rows _conn.read was sent: the frame sorted by date,
\* or the empty frame of the except branch when the read raises.
load_data(rows, read_ok) == IF read_ok THEN SortByDate(rows) ELSE <<>>

\* The frame load_data gives a run that starts now, if its read succeeds.
CachedLoad == IF cache.present THEN cache.df ELSE load_data(sheet, TRUE)

\* Lines 192-208 adding the frame's rows to the worksheet instead of
\* replacing it: the rows already there that the frame lacks stay.
save_data_KeepOthers(frame, update_ok) ==
    IF update_ok
    THEN frame \o SelectSeq(sheet, LAMBDA r : \A k \in 1..Len(frame) : frame[k] # r)
    ELSE sheet

\* Lines 192-208: the rows of the worksheet afterwards, the whole frame, or
\* what it held when _conn.update raises (the except branch reports it).
save_data(frame, update_ok) == IF update_ok THEN frame ELSE sheet

\* Lines 239-254.
df_equivalent(a, b) ==
    IF Len(a) # Len(b) THEN FALSE
    ELSE \A k \in 1..Len(a) : a[k] = b[k]

\* Lines 417-422.
new_entry(form, user) ==
    [Transaction |-> form.transaction, Amount |-> form.amount,
     Type |-> form.trans_type, PaidBy |-> form.paid_by,
     Date |-> form.transaction_date, EnteredBy |-> user]

\* Line 517: the frame st.data_editor returns for a grid event.
data_editor(frame, ev) ==
    IF ev.kind = "set_amount" /\ ev.i \in 1..Len(frame)
    THEN [frame EXCEPT ![ev.i].Amount = ev.v]
    ELSE IF ev.kind = "delete" /\ ev.i \in 1..Len(frame)
    THEN SubSeq(frame, 1, ev.i - 1) \o SubSeq(frame, ev.i + 1, Len(frame))
    ELSE frame

(***************************************************************************)
(* Spec: the sessions running the script against the sheet                 *)
(***************************************************************************)
AppIdle ==
    /\ sheet = <<>>
    /\ cache = NoCache
    /\ auth = [s \in Sessions |-> NoAuth]
    /\ spc = [s \in Sessions |-> "idle"]
    /\ event = [s \in Sessions |-> NoEvent]
    /\ current_user = [s \in Sessions |-> ""]
    /\ snap = [s \in Sessions |-> <<>>]
    /\ page = [s \in Sessions |-> NoPage]

EngineIdle ==
    /\ df = <<>>
    /\ pc = "idle"
    /\ balance = Zero
    /\ summary_data = ZeroSummary
    /\ card = NoCard
    /\ idx = 0
    /\ running_balance = Zero
    /\ log = <<>>

\* The app is deployed with one of the secrets files.
Init == secrets \in SecretsFiles /\ AppIdle /\ EngineIdle

\* Lines 279-401 of a run of session s that has loaded frame, and the end
\* of the run when no form or grid started it.
Display(s, frame, user, ev) ==
    /\ page' = [page EXCEPT ![s] =
           [view |-> "app", user |-> user, save_error |-> FALSE]]
    /\ IF ev.kind = "none"
       THEN /\ spc' = [spc EXCEPT ![s] = "idle"]
            /\ current_user' = [current_user EXCEPT ![s] = ""]
            /\ snap' = [snap EXCEPT ![s] = <<>>]
       ELSE /\ spc' = [spc EXCEPT ![s] = IF ev.kind = "add" THEN "sidebar"
                                         ELSE "editor"]
            /\ current_user' = [current_user EXCEPT ![s] = user]
            /\ snap' = [snap EXCEPT ![s] = frame]

\* Lines 257-401 of one script run of session s: a is what
\* authenticator.login returned, ev the widget event that started the run.
\* Past the gate, line 277 answers from the cache, or the cache has no
\* frame and the run sends _conn.read and waits for the rows.
RunScript(s, a, ev) ==
    IF LoginGate(a.status)
    THEN /\ event' = [event EXCEPT ![s] = ev]
         /\ IF cache.present
            THEN /\ Display(s, cache.df, a.username, ev)
                 /\ UNCHANGED cache
            ELSE /\ spc' = [spc EXCEPT ![s] = "loading"]
                 /\ current_user' = [current_user EXCEPT ![s] = a.username]
                 /\ snap' = [snap EXCEPT ![s] = sheet]
                 /\ UNCHANGED <<cache, page>>
    ELSE /\ page' = [page EXCEPT ![s] =
                [view |-> IF a.status = "False" THEN "error" ELSE "login",
                 user |-> "", save_error |-> FALSE]]
         /\ spc' = [spc EXCEPT ![s] = "idle"]
         /\ event' = [event EXCEPT ![s] = NoEvent]
         /\ current_user' = [current_user EXCEPT ![s] = ""]
         /\ snap' = [snap EXCEPT ![s] = <<>>]
         /\ UNCHANGED cache

\* _conn.read of a waiting run answers or raises: load_data returns, its
\* frame goes into the cache, and the run goes on from line 279.
Loaded(s, read_ok) ==
    /\ spc[s] = "loading"
    /\ LET frame == load_data(snap[s], read_ok)
       IN  /\ cache' = [present |-> TRUE, df |-> frame]
           /\ Display(s, frame, current_user[s], event[s])
    /\ UNCHANGED <<sheet, auth, event>>
    /\ UNCHANGED <<secrets, engineVars>>

\* A run no widget started: the page is opened or refreshed.
Visit(s) ==
    /\ spc[s] = "idle"
    /\ RunScript(s, auth[s], NoEvent)
    /\ UNCHANGED <<sheet, auth>>
    /\ UNCHANGED <<secrets, engineVars>>

\* The edit the grid of session s holds when a rerun hands st.data_editor
\* its frame: the widget state under key "data_editor" lasts while the data
\* of the grid is the data the edit was made on.
PendingEdit(s) ==
    IF event[s].kind \in {"set_amount", "delete"} /\ CachedLoad = snap[s]
    THEN event[s]
    ELSE NoEvent

\* A st.experimental_rerun() (line 274, 428 or 530) is carried out: the
\* script runs again with the widget state of the session.
Rerun(s) ==
    /\ spc[s] = "rerun"
    /\ RunScript(s, auth[s], PendingEdit(s))
    /\ UNCHANGED <<sheet, auth>>
    /\ UNCHANGED <<secrets, engineVars>>

\* The login form is submitted.
LoginSubmit(s, uname, password) ==
    /\ spc[s] = "idle"
    /\ page[s].view \in {"login", "error"}
    /\ auth[s].status # "True"
    /\ auth' = [auth EXCEPT ![s] = login(uname, password)]
    /\ RunScript(s, login(uname, password), NoEvent)
    /\ UNCHANGED sheet
    /\ UNCHANGED <<secrets, engineVars>>

\* Lines 271-274: the Logout button is pressed.  authenticator.logout
\* clears the session's authentication; whether it answers something true
\* (and the run is abandoned for a rerun) is up to the library, otherwise
\* the run goes on with the names line 257 returned.
Logout(s, reruns) ==
    /\ spc[s] = "idle"
    /\ page[s].view = "app"
    /\ LoginGate(auth[s].status)
    /\ auth' = [auth EXCEPT ![s] = NoAuth]
    /\ IF reruns
       THEN /\ spc' = [spc EXCEPT ![s] = "rerun"]
            /\ UNCHANGED <<cache, event, current_user, snap, page>>
       ELSE RunScript(s, auth[s], NoEvent)
    /\ UNCHANGED sheet
    /\ UNCHANGED <<secrets, engineVars>>

\* "Add Transaction" is pressed: the run starts and, once it has its frame,
\* reaches the sidebar.
AddSubmit(s, form) ==
    /\ spc[s] = "idle"
    /\ page[s].view = "app"
    /\ Len(CachedLoad) < MaxSheet
    /\ RunScript(s, auth[s], [kind |-> "add", form |-> form, i |-> 0, v |-> Zero])
    /\ UNCHANGED <<sheet, auth>>
    /\ UNCHANGED <<secrets, engineVars>>

\* A cell of the grid is edited or a row of it deleted: the run starts and,
\* once it has its frame, reaches the editor.  The grid edited is the one a
\* run of this moment shows.
GridEdit(s, kind, i, v) ==
    /\ spc[s] = "idle"
    /\ page[s].view = "app"
    /\ i \in 1..Len(CachedLoad)
    /\ RunScript(s, auth[s], [kind |-> kind, form |-> NoForm, i |-> i, v |-> v])
    /\ UNCHANGED <<sheet, auth>>
    /\ UNCHANGED <<secrets, engineVars>>

\* The run of session s is over: its form is cleared (clear_on_submit) and
\* its grid holds no edit.
EndRun(s, to) ==
    /\ spc' = [spc EXCEPT ![s] = to]
    /\ event' = [event EXCEPT ![s] = NoEvent]
    /\ current_user' = [current_user EXCEPT ![s] = ""]
    /\ snap' = [snap EXCEPT ![s] = <<>>]

\* save_data is back in the run of session s, by line 206 or by lines
\* 207-208, and the run goes on to its rerun: lines 425-428 behind the form,
\* lines 527-530 behind the grid, whose edit and data stay in the widget.
Returned(s, save_error) ==
    /\ page' = [page EXCEPT ![s].save_error = save_error]
    /\ cache' = NoCache
    /\ IF event[s].kind = "add"
       THEN EndRun(s, "rerun")
       ELSE /\ spc' = [spc EXCEPT ![s] = "rerun"]
            /\ current_user' = [current_user EXCEPT ![s] = ""]
            /\ UNCHANGED <<event, snap>>

\* Line 205 in the run of session s, called with frame: _conn.update
\* replaces the worksheet and the run waits for its answer, or it raises,
\* the worksheet is as it was and the run goes on through the except branch.
Update(s, frame, update_ok) ==
    /\ sheet' = save_data(frame, update_ok)
    /\ IF update_ok
       THEN /\ spc' = [spc EXCEPT ![s] = "saving"]
            /\ UNCHANGED <<cache, page, event, current_user, snap>>
       ELSE Returned(s, TRUE)

\* Lines 413-424 of a run started by "Add Transaction".
Sidebar(s, update_ok) ==
    /\ spc[s] = "sidebar"
    /\ LET form == event[s].form
       IN  IF form.transaction = "" \/ ~Less(Zero, form.amount)
           THEN /\ EndRun(s, "idle")
                /\ UNCHANGED <<sheet, cache, page>>
           ELSE Update(s, Append(snap[s], new_entry(form, current_user[s])),
                       update_ok)
    /\ UNCHANGED auth
    /\ UNCHANGED <<secrets, engineVars>>

\* Lines 517-526 of a run started by a grid event or rerun with the edit
\* still in the grid.
Editor(s, update_ok) ==
    /\ spc[s] = "editor"
    /\ LET edited_df == data_editor(snap[s], event[s])
       IN  IF ~df_equivalent(snap[s], edited_df)
           THEN Update(s, edited_df, update_ok)
           ELSE /\ EndRun(s, "idle")
                /\ UNCHANGED <<sheet, cache, page>>
    /\ UNCHANGED auth
    /\ UNCHANGED <<secrets, engineVars>>

\* The answer of _conn.update reaches the waiting run of session s.
Saved(s) ==
    /\ spc[s] = "saving"
    /\ Returned(s, FALSE)
    /\ UNCHANGED <<sheet, auth>>
    /\ UNCHANGED <<secrets, engineVars>>

\* ttl=60 of line 165 runs out.
CacheExpire ==
    /\ cache.present
    /\ cache' = NoCache
    /\ UNCHANGED <<sheet, auth, spc, event, current_user, snap, page>>
    /\ UNCHANGED <<secrets, engineVars>>

\* Every step but an edit of an Amount cell of the grid.
LedgerNext ==
    \/ \E s \in Sessions : Visit(s)
    \/ \E s \in Sessions : Rerun(s)
    \/ \E s \in Sessions : \E uname \in LoginNames(s), password \in LoginPasswords :
          LoginSubmit(s, uname, password)
    \/ \E s \in Sessions, reruns \in BOOLEAN : Logout(s, reruns)
    \/ \E s \in Sessions : \E form \in Forms(s) : AddSubmit(s, form)
    \/ \E s \in Sessions, i \in 1..MaxSheet : GridEdit(s, "delete", i, Zero)
    \/ \E s \in Sessions, read_ok \in BOOLEAN : Loaded(s, read_ok)
    \/ \E s \in Sessions, update_ok \in BOOLEAN : Sidebar(s, update_ok)
    \/ \E s \in Sessions, update_ok \in BOOLEAN : Editor(s, update_ok)
    \/ \E s \in Sessions : Saved(s)
    \/ CacheExpire

Next ==
    \/ LedgerNext
    \/ \E s \in Sessions, i \in 1..MaxSheet, v \in GridAmounts :
          GridEdit(s, "set_amount", i, v)

\* The whole app.
Spec == Init /\ [][Next]_vars

\* The app while no Amount cell of the grid is edited: the rows of the
\* sheet are those the Add Transaction form made.
LedgerSpec == Init /\ [][LedgerNext]_vars

(***************************************************************************)
(* EngineSpec: one run of the display pipeline over a loaded frame         *)
(***************************************************************************)
\* The frame of the run is any frame; the pipeline reads nothing of the
\* secrets file, the sheet or the sessions.
EngineInit ==
    /\ df \in SeqsUpTo(EngineRows, MaxRows)
    /\ pc = "loaded"
    /\ balance = Zero
    /\ summary_data = ZeroSummary
    /\ card = NoCard
    /\ idx = 0
    /\ running_balance = Zero
    /\ log = <<>>
    /\ secrets = RequiredSecrets
    /\ AppIdle

\* Line 293.
Summarize ==
    /\ pc = "loaded"
    /\ LET result == calculate_balance_and_summary(df)
       IN  balance' = result.balance /\ summary_data' = result.summary
    /\ pc' = "summarized"
    /\ UNCHANGED <<df, card, idx, running_balance, log>>
    /\ UNCHANGED appVars

\* Lines 295-304.
ShowCard ==
    /\ pc = "summarized"
    /\ card' = BalanceCard(balance)
    /\ pc' = "log"
    /\ UNCHANGED <<df, balance, summary_data, idx, running_balance, log>>
    /\ UNCHANGED appVars

\* One iteration of the loop of line 370.
LogRow ==
    /\ pc = "log"
    /\ idx < Len(df)
    /\ LET row == df[idx + 1]
           new_running_balance == Plus(running_balance, balance_change(row))
       IN  /\ log' = Append(log, [index |-> idx + 1, row |-> row,
                                  balance_change |-> balance_change(row),
                                  before |-> running_balance,
                                  after |-> new_running_balance])
           /\ running_balance' = new_running_balance
    /\ idx' = idx + 1
    /\ UNCHANGED <<df, pc, balance, summary_data, card>>
    /\ UNCHANGED appVars

\* The loop of line 370 is exhausted.
LogDone ==
    /\ pc = "log"
    /\ idx = Len(df)
    /\ pc' = "done"
    /\ UNCHANGED <<df, balance, summary_data, card, idx, running_balance, log>>
    /\ UNCHANGED appVars

EngineNext == Summarize \/ ShowCard \/ LogRow \/ LogDone

EngineSpec == EngineInit /\ [][EngineNext]_vars

(***************************************************************************)
(* Properties of the engine (checked under EngineSpec)                     *)
(***************************************************************************)
Perms(n) == {p \in [1..n -> 1..n] : \A i, j \in 1..n : p[i] = p[j] => i = j}

Permute(d, p) == [i \in 1..Len(d) |-> d[p[i]]]

Unrecognised(r) == r.Type \notin Types \/ r.PaidBy \notin Parties

\* The category/payer combinations the per-record rules list.
Listed(r) ==
    \/ r.Type = "Shared Expense" /\ r.PaidBy \in Parties
    \/ r.Type = "For AA only" /\ r.PaidBy = "AK"
    \/ r.Type = "For AK only" /\ r.PaidBy = "AA"
    \/ r.Type \in {"Repayment from AK to AA", "Repayment from AA to AK"}

\* C1: for every non-empty frame, the running balance the log loop ends on
\* equals the net balance calculate_balance_and_summary returned for it.
C1_TraceFinalEqualsNetBalance ==
    (pc = "done" /\ df # <<>>) => running_balance = balance

\* C2: a record whose type is none of the five or whose payer is neither
\* party adds nothing to the net balance of any frame it is added to.
C2_UnrecognisedContributesZero ==
    pc = "summarized" =>
        \A r \in EngineRows :
            Unrecognised(r) =>
                calculate_balance_and_summary(Append(df, r)).balance = balance

\* C3: a record with a zero or negative amount adds nothing to the net
\* balance of any frame it is added to.
C3_NonPositiveContributesZero ==
    pc = "summarized" =>
        \A r \in EngineRows :
            ~Less(Zero, r.Amount) =>
                calculate_balance_and_summary(Append(df, r)).balance = balance

\* C5: the net balance and the nine totals returned for a list of records
\* are the ones returned for every permutation of it; the lists are the
\* frame with any one more record, every list of 1 to MaxRows + 1 records.
C5_OrderIndependent ==
    pc = "summarized" =>
        \A r \in EngineRows :
            LET records == Append(df, r)
                result == calculate_balance_and_summary(records)
            IN  \A p \in Perms(Len(records)) :
                    calculate_balance_and_summary(Permute(records, p)) = result

\* A 'For AA only' record of amount B paid by AK and a 'Repayment from AA
\* to AK' record of the same amount B > 0, in either order.
IsDebtAndRepayment(d) ==
    /\ Len(d) = 2
    /\ \E i, j \in 1..2 :
          /\ i # j
          /\ d[i].Type = "For AA only" /\ d[i].PaidBy = "AK"
          /\ Less(Zero, d[i].Amount)
          /\ d[j].Type = "Repayment from AA to AK" /\ d[j].Amount = d[i].Amount

\* C6: on a ledger of one 'For AA only' record of amount B paid by AK and
\* one 'Repayment from AA to AK' record of amount B the net balance is 0,
\* both as returned by calculate_balance_and_summary and as the final
\* running balance of the log.
C6_RepaymentCancelsDebt ==
    IsDebtAndRepayment(df) =>
        /\ pc # "loaded" => balance = Zero
        /\ pc = "done" => running_balance = Zero

\* C6 witness: the log of such a ledger is complete, the debt came first
\* and stood at B before the repayment brought it back to 0.
C6_Witness ==
    /\ IsDebtAndRepayment(df)
    /\ pc = "done"
    /\ Len(log) = 2
    /\ log[1].after = df[1].Amount
    /\ log[2].after = Zero
    /\ balance = Zero

\* C7: a balance above Rs 0.01 is reported as AA owes AK the balance, a
\* balance below -Rs 0.01 as AK owes AA the negated balance, anything else
\* as settled; exactly one of the three is reported.
C7_SignDeterminesSettlement ==
    pc \in {"log", "done"} =>
        /\ card.class \in {"positive", "negative", "neutral"}
        /\ card.class = "positive" <=> Less(Eps, balance)
        /\ card.class = "negative" <=> Less(balance, Neg(Eps))
        /\ card.class = "neutral" <=>
              (~Less(balance, Neg(Eps)) /\ ~Less(Eps, balance))
        /\ card.class = "positive" =>
              card.title = "Final Balance: AA owes AK" /\ card.amount = balance
        /\ card.class = "negative" =>
              card.title = "Final Balance: AK owes AA"
              /\ card.amount = Neg(balance)
        /\ card.class = "neutral" =>
              card.title = "You are all settled up!" /\ card.amount = Zero

\* C7 witness: a balance that is not zero but within Rs 0.01 of it has
\* been reported as settled.
C7_Witness ==
    /\ pc = "log"
    /\ balance # Zero
    /\ card.class = "neutral"

\* C8: the log has one entry per row, in row order, and a row whose
\* category/payer combination is not a listed rule has delta 0 and leaves
\* the running balance as it was.
C8_TraceCompleteAndUnlistedZero ==
    pc = "done" =>
        /\ Len(log) = Len(df)
        /\ \A i \in 1..Len(df) :
              /\ log[i].index = i
              /\ log[i].row = df[i]
              /\ ~Listed(df[i]) =>
                    log[i].balance_change = Zero /\ log[i].after = log[i].before

\* C9: for the empty frame the net balance is 0 and all nine totals are 0.
C9_EmptyIsZero ==
    (df = <<>> /\ pc # "loaded") =>
        /\ balance = Zero
        /\ \A k \in DOMAIN summary_data : summary_data[k] = Zero
        /\ DOMAIN summary_data = DOMAIN ZeroSummary

\* C9 witness: the empty frame has been summarized.
C9_Witness ==
    /\ df = <<>>
    /\ pc = "summarized"
    /\ summary_data = ZeroSummary

(***************************************************************************)
(* Properties of the sessions and the sheet (C4 checked under Spec, the     *)
(* others under LedgerSpec)                                                *)
(***************************************************************************)
\* C4: every record the sheet holds, after any sequence of Add Transaction
\* submissions and grid edits from the empty sheet, has an amount above 0.
C4_StoredAmountsPositive ==
    \A k \in 1..Len(sheet) : Less(Zero, sheet[k].Amount)

Authenticated(a) == a.status = "True" /\ a.username \in Parties

\* Session s carries out a ledger operation in this step: its run passes
\* the gate and loads the records (from the cache, or by sending the
\* read), the read answers and the run renders the balance, or the run
\* saves from the Add Transaction form or from the grid, or the save
\* returns to the run.
LedgerStep(s) ==
    \/ /\ spc[s] \in {"idle", "rerun"}
       /\ spc'[s] = "loading"
    \/ /\ spc[s] \in {"idle", "rerun"}
       /\ page'[s].view = "app"
       /\ <<page[s], spc[s], event[s], auth[s], snap[s]>>
            # <<page'[s], spc'[s], event'[s], auth'[s], snap'[s]>>
    \/ /\ spc[s] = "loading"
       /\ spc'[s] # "loading"
    \/ /\ spc[s] \in {"sidebar", "editor"}
       /\ spc'[s] \in {"saving", "rerun"}
    \/ /\ spc[s] = "saving"
       /\ spc'[s] # "saving"

\* C10: a session carries out a ledger operation only in a run whose login
\* call answered it authenticated, as AK or as AA, and the run acts under
\* that name from the load to the save.
C10_GateBeforeLedger ==
    [][\A s \in Sessions :
          LedgerStep(s) =>
              /\ spc[s] \in {"idle", "rerun"} =>
                    Authenticated(auth[s]) \/ Authenticated(auth'[s])
              /\ spc'[s] \in {"loading", "sidebar", "editor"} =>
                    current_user'[s] \in {auth[s].username, auth'[s].username}
                        \ {""}
              /\ spc[s] \in {"loading", "sidebar", "editor", "saving"} =>
                    current_user[s] \in Parties
              /\ page'[s].view = "app" => page'[s].user \in Parties
              /\ spc[s] \in {"sidebar", "editor", "saving"} =>
                    current_user[s] = auth[s].username]_vars

\* The run of session s calls save_data in this step (line 424 or 526):
\* _conn.update replaces the worksheet, or raises.
Saves(s) == spc[s] \in {"sidebar", "editor"} /\ spc'[s] \in {"saving", "rerun"}

\* The collection the run of session s hands to save_data, made from the
\* snapshot the run loaded and from its own widget event alone.
Supplied(s) ==
    IF spc[s] = "sidebar"
    THEN Append(snap[s], [Transaction |-> event[s].form.transaction,
                          Amount |-> event[s].form.amount,
                          Type |-> event[s].form.trans_type,
                          PaidBy |-> event[s].form.paid_by,
                          Date |-> event[s].form.transaction_date,
                          EnteredBy |-> current_user[s]])
    ELSE IF event[s].kind = "set_amount"
    THEN [k \in 1..Len(snap[s]) |->
            IF k = event[s].i THEN [snap[s][k] EXCEPT !.Amount = event[s].v]
            ELSE snap[s][k]]
    ELSE [k \in 1..(Len(snap[s]) - 1) |->
            IF k < event[s].i THEN snap[s][k] ELSE snap[s][k + 1]]

\* C11: under every interleaving of the two sessions' loads and saves, the
\* sheet after a save's write is exactly the collection that save supplied,
\* whatever the other session wrote since the snapshot was loaded, unless
\* the run reports that the write failed, and then the sheet is as it was;
\* nothing but the write of a save changes the sheet, not its return
\* either: the last writer's collection is what remains.
C11_LastWriterWins ==
    [][/\ \A s \in Sessions :
             Saves(s) => sheet' = IF page'[s].save_error THEN sheet
                                  ELSE Supplied(s)
       /\ (\A s \in Sessions : ~Saves(s)) => sheet' = sheet]_vars

\* C11 witness: both sessions have saved since either last loaded, neither
\* write failed, and the sheet holds the single row the later Add
\* Transaction supplied on an empty snapshot; nothing of the other session's
\* write is left.
C11_Witness ==
    /\ \A s \in Sessions :
          spc[s] = "rerun" /\ Authenticated(auth[s]) /\ ~page[s].save_error
    /\ Len(sheet) = 1
    /\ sheet[1].Amount = Float64(2)
    /\ sheet[1].EnteredBy = "AA"

\* The run of session s goes through lines 413-428 in this step.
Submits(s) == spc[s] = "sidebar" /\ spc'[s] # "sidebar"

====
